---- MODULE Spec2Model ----
(***************************************************************************)
(* ginkou: a Japanese sentence bank.  The model covers the sentence        *)
(* segmenter (Sentences::next), the sentence store (add_sentence,          *)
(* add_word, matching_word, print_matching_words) and the ingestion        *)
(* pipeline (consume_trimmed, consume_sentences) of src/src/main.rs.       *)
(*                                                                         *)
(* Strings are sequences of Unicode code points, byte buffers are          *)
(* sequences of integers 0..255.  The SQL statements the store functions   *)
(* execute live in sql/*.sql, which is not among the sources; they are     *)
(* modelled from the store contract of the design document (Sql*           *)
(* definitions).                                                           *)
(***************************************************************************)
EXTENDS Integers, Sequences, FiniteSets, TLC

VARIABLES
    input,      \* ghost: the whole content of the reader, as constructed
    bytes,      \* Sentences.bytes: what the reader has not delivered yet
    done,       \* Sentences.done
    items,      \* ghost: the items Sentences::next has yielded, in order
    conn,       \* the store behind the Connection
    pc,         \* position of consume_sentences / of the caller
    i,          \* consume_sentences' counter i
    stdout,     \* what print_matching_words wrote
    ret,        \* what the last call made by the driver returned
    calls,      \* ghost: the add_sentence calls made so far
    disk,       \* the database file at db_path
    opt         \* the parsed command line (Ginkou), with the disk before the run

vars == <<input, bytes, done, items, conn, pc, i, stdout, ret, calls, disk, opt>>

----------------------------------------------------------------------------
(* Bounds *)

MaxChunks == 5       \* pieces an input stream of the segmenter is made of
MaxFileChunks == 4   \* pieces an input stream of consume_sentences is made of
MaxSentences == 2    \* add_sentence calls of a store test
MaxBulk == 202       \* sentences of a store filled for the capped query
MaxBatchChunks == 3  \* pieces an input stream of the add command is made of
MaxLiveChunks == 2   \* pieces of a stream whose sequence is followed to its end

----------------------------------------------------------------------------
(* Byte streams *)

\* const DAKUTEN_BYTES: [u8; 3] = [227, 128, 130];
DAKUTEN_BYTES == <<227, 128, 130>>

\* An element of the reader that is not a byte: the read fails there
\* (io::Bytes yields Some(Err(e))).
IoFault == -1

IsByte(b) == b \in 0..255

\* The pieces the modelled inputs are made of: 'A', ' ', the delimiter, the
\* delimiter's first byte alone, a lone continuation byte, a failing read.
Chunks == { <<65>>, <<32>>, DAKUTEN_BYTES, <<227>>, <<128>>, <<IoFault>> }

RECURSIVE Flatten(_)
Flatten(ss) == IF ss = <<>> THEN <<>> ELSE Head(ss) \o Flatten(Tail(ss))

StreamsOf(max) == { Flatten(cs) : cs \in UNION { [1..n -> Chunks] : n \in 0..max } }

Streams == StreamsOf(MaxChunks)

FileStreams == StreamsOf(MaxFileChunks)

BatchStreams == StreamsOf(MaxBatchChunks)

LiveStreams == StreamsOf(MaxLiveChunks)

----------------------------------------------------------------------------
(* String::from_utf8 and char::is_whitespace *)

IsCont(b) == b \in 128..191

\* Length of the well-formed UTF-8 sequence at the head of bs, 0 if none.
Utf8Width(bs) ==
    LET n  == Len(bs)
        b0 == bs[1]
        c(k) == n >= k /\ IsCont(bs[k])
    IN  IF b0 <= 127 THEN 1
        ELSE IF b0 \in 194..223 THEN (IF c(2) THEN 2 ELSE 0)
        ELSE IF b0 = 224 THEN (IF n >= 3 /\ bs[2] \in 160..191 /\ c(3) THEN 3 ELSE 0)
        ELSE IF b0 = 237 THEN (IF n >= 3 /\ bs[2] \in 128..159 /\ c(3) THEN 3 ELSE 0)
        ELSE IF b0 \in 225..239 THEN (IF c(2) /\ c(3) THEN 3 ELSE 0)
        ELSE IF b0 = 240 THEN (IF n >= 4 /\ bs[2] \in 144..191 /\ c(3) /\ c(4) THEN 4 ELSE 0)
        ELSE IF b0 \in 241..243 THEN (IF c(2) /\ c(3) /\ c(4) THEN 4 ELSE 0)
        ELSE IF b0 = 244 THEN (IF n >= 4 /\ bs[2] \in 128..143 /\ c(3) /\ c(4) THEN 4 ELSE 0)
        ELSE 0

Utf8Scalar(bs, w) ==
    IF w = 1 THEN bs[1]
    ELSE IF w = 2 THEN (bs[1] - 192) * 64 + (bs[2] - 128)
    ELSE IF w = 3 THEN (bs[1] - 224) * 4096 + (bs[2] - 128) * 64 + (bs[3] - 128)
    ELSE (bs[1] - 240) * 262144 + (bs[2] - 128) * 4096 + (bs[3] - 128) * 64 + (bs[4] - 128)

\* String::from_utf8(buf): [ok |-> TRUE, chars |-> the code points] or
\* [ok |-> FALSE] (FromUtf8Error).
RECURSIVE from_utf8(_)
from_utf8(buf) ==
    IF buf = <<>> THEN [ok |-> TRUE, chars |-> <<>>]
    ELSE LET w == Utf8Width(buf)
         IN  IF w = 0 THEN [ok |-> FALSE, chars |-> <<>>]
             ELSE LET rest == from_utf8(SubSeq(buf, w + 1, Len(buf)))
                  IN  IF rest.ok
                      THEN [ok |-> TRUE, chars |-> <<Utf8Scalar(buf, w)>> \o rest.chars]
                      ELSE rest

\* char::is_whitespace: the code points with the Unicode White_Space property.
is_whitespace(c) ==
    \/ c \in 9..13
    \/ c \in {32, 133, 160, 5760, 8232, 8233, 8239, 8287, 12288}
    \/ c \in 8192..8202

IsNotWhitespace(c) == ~is_whitespace(c)

\* A plausible slip: trim() in place of replace(is_whitespace, "").
RECURSIVE TrimOnly(_)
TrimOnly(s) ==
    IF s = <<>> THEN s
    ELSE IF is_whitespace(Head(s)) THEN TrimOnly(Tail(s))
    ELSE IF is_whitespace(s[Len(s)]) THEN TrimOnly(SubSeq(s, 1, Len(s) - 1))
    ELSE s

\* x.replace(|x: char| x.is_whitespace(), "")
StripWhitespace(s) == SelectSeq(s, IsNotWhitespace)

----------------------------------------------------------------------------
(* Sentences::next *)

\* A plausible slip: the loop condition tested one byte late, so that the
\* byte after a full match is pushed too.
RECURSIVE ScanLoopLate(_, _, _)
ScanLoopLate(bs, buf, match_index) ==
    IF bs = <<>> THEN [bytes |-> bs, buf |-> buf, io |-> FALSE]
    ELSE IF ~IsByte(Head(bs)) THEN [bytes |-> Tail(bs), buf |-> buf, io |-> TRUE]
    ELSE LET byte == Head(bs)
         IN  IF ~(match_index < 3)
             THEN [bytes |-> Tail(bs), buf |-> Append(buf, byte), io |-> FALSE]
             ELSE ScanLoopLate(Tail(bs), Append(buf, byte),
                               IF byte = DAKUTEN_BYTES[match_index + 1]
                               THEN match_index + 1 ELSE 0)

\* The while loop of lines 50-62 from (bs, buf, match_index): the bytes left,
\* the buffer, and whether the loop was left by `return Some(Err(e.into()))`.
RECURSIVE ScanLoop(_, _, _)
ScanLoop(bs, buf, match_index) ==
    IF ~(match_index < 3) THEN [bytes |-> bs, buf |-> buf, io |-> FALSE]
    ELSE IF bs = <<>> THEN [bytes |-> bs, buf |-> buf, io |-> FALSE]
    ELSE IF ~IsByte(Head(bs)) THEN [bytes |-> Tail(bs), buf |-> buf, io |-> TRUE]
    ELSE LET byte == Head(bs)
         IN  ScanLoop(Tail(bs), Append(buf, byte),
                      IF byte = DAKUTEN_BYTES[match_index + 1]
                      THEN match_index + 1 ELSE 0)

\* Item kinds: "None", "Ok" (Some(Ok(text))), "Utf8" and "IO" (Some(Err(..))).
Item(kind, text, buf) == [kind |-> kind, text |-> text, buf |-> buf]

\* A plausible slip: the end of the stream is not remembered in self.done.
SentencesNextForgetful(bs, dn) ==
    IF dn THEN [item |-> Item("None", <<>>, <<>>), bytes |-> bs, done |-> dn]
    ELSE LET r == ScanLoop(bs, <<>>, 0)
         IN  IF r.io THEN [item |-> Item("IO", <<>>, r.buf), bytes |-> r.bytes, done |-> dn]
             ELSE IF Len(r.buf) = 0
                  THEN [item |-> Item("None", <<>>, <<>>), bytes |-> r.bytes, done |-> dn]
             ELSE LET next == from_utf8(r.buf)
                  IN  IF next.ok
                      THEN [item |-> Item("Ok", StripWhitespace(next.chars), r.buf),
                            bytes |-> r.bytes, done |-> dn]
                      ELSE [item |-> Item("Utf8", <<>>, r.buf),
                            bytes |-> r.bytes, done |-> dn]

\* One call of next on a Sentences with fields (bs, dn): the item returned
\* and the fields afterwards.
SentencesNext(bs, dn) ==
    IF dn THEN [item |-> Item("None", <<>>, <<>>), bytes |-> bs, done |-> dn]
    ELSE LET r == ScanLoop(bs, <<>>, 0)
         IN  IF r.io THEN [item |-> Item("IO", <<>>, r.buf), bytes |-> r.bytes, done |-> dn]
             ELSE IF Len(r.buf) = 0
                  THEN [item |-> Item("None", <<>>, <<>>), bytes |-> r.bytes, done |-> TRUE]
             ELSE LET next == from_utf8(r.buf)
                  IN  IF next.ok
                      THEN [item |-> Item("Ok", StripWhitespace(next.chars), r.buf),
                            bytes |-> r.bytes, done |-> dn]
                      ELSE [item |-> Item("Utf8", <<>>, r.buf),
                            bytes |-> r.bytes, done |-> dn]

----------------------------------------------------------------------------
(* The store: sql/*.sql as the design document describes the relations.    *)
(* sentences is the Sentences relation in rowid order (the id of a row is  *)
(* its index), words the Words relation, junction the membership relation  *)
(* as pairs <<word, sentence_id>>.                                         *)

(* tables tells whether the three tables exist.                             *)

\* A database after create_tables (sql/setup.sql).
EmptyConn == [tables |-> TRUE, sentences |-> <<>>, words |-> {}, junction |-> {}]

\* A database without the tables: what Connection::open finds in a new or
\* zero-length file.
NoTables == [tables |-> FALSE, sentences |-> <<>>, words |-> {}, junction |-> {}]

\* The file at db_path: whether it exists, and the database in it.
NoDisk == [exists |-> FALSE, db |-> NoTables]

\* No command line: the functions are called by a test.
NoOpt == [cmd |-> "test", file |-> "none", word |-> <<>>, all |-> FALSE,
          before |-> NoDisk]

\* Connection::execute: Ok(number of rows changed) with the new contents,
\* or Err.
Executed(n, db) == [ok |-> TRUE, changed |-> n, db |-> db]
SqlError(db) == [ok |-> FALSE, changed |-> 0, db |-> db]

\* sql/add_sentence.sql: insert a Sentence row; the store assigns the id.
SqlAddSentence(db, sentence) ==
    IF ~db.tables THEN SqlError(db)
    ELSE Executed(1, [db EXCEPT !.sentences = Append(@, sentence)])

\* conn.last_insert_rowid() after SqlAddSentence
LastInsertRowid(db) == Len(db.sentences)

\* sql/add_word.sql: insert the word unless it is there already.
SqlAddWord(db, word) ==
    IF ~db.tables THEN SqlError(db)
    ELSE IF word \in db.words THEN Executed(0, db)
    ELSE Executed(1, [db EXCEPT !.words = @ \cup {word}])

\* sql/add_word_junction.sql: insert the pair unless it is there already;
\* the sentence_id must reference a Sentence row.
SqlAddWordJunction(db, word, sentence_id) ==
    IF ~db.tables THEN SqlError(db)
    ELSE IF sentence_id \notin 1..Len(db.sentences) THEN SqlError(db)
    ELSE IF <<word, sentence_id>> \in db.junction THEN Executed(0, db)
    ELSE Executed(1, [db EXCEPT !.junction = @ \cup {<<word, sentence_id>>}])

\* The ids of the sentences with a membership with word, in id order.
MatchingIds(db, word) ==
    LET HasWord(id) == <<word, id>> \in db.junction
    IN  SelectSeq([k \in 1..Len(db.sentences) |-> k], HasWord)

\* ORDER BY length(sentence): the ids of the given length, then the longer.
RECURSIVE OrderByLength(_, _, _, _)
OrderByLength(db, ids, len, maxLen) ==
    IF len > maxLen THEN <<>>
    ELSE LET HasLen(id) == Len(db.sentences[id]) = len
         IN  SelectSeq(ids, HasLen) \o OrderByLength(db, ids, len + 1, maxLen)

MaxLength(db) ==
    IF db.sentences = <<>> THEN 0
    ELSE LET ls == { Len(db.sentences[k]) : k \in 1..Len(db.sentences) }
         IN  CHOOSE m \in ls : \A l \in ls : l <= m

\* sql/all_word_sentences.sql: the texts of the sentences with a membership
\* with word, shortest first.
SqlAllWordSentences(db, word) ==
    LET ids == OrderByLength(db, MatchingIds(db, word), 0, MaxLength(db))
    IN  [k \in 1..Len(ids) |-> db.sentences[ids[k]]]

\* "Show all results instead of shortest 200"
BEST_LIMIT == 200

\* sql/best_word_sentences.sql: the same, cut after BEST_LIMIT rows.
SqlBestWordSentences(db, word) ==
    LET rows == SqlAllWordSentences(db, word)
    IN  IF Len(rows) <= BEST_LIMIT THEN rows ELSE SubSeq(rows, 1, BEST_LIMIT)

----------------------------------------------------------------------------
(* add_sentence, add_word, matching_word, print_matching_words *)

Ok(v, c) == [ok |-> TRUE, val |-> v, conn |-> c]

\* `as u32` on the i64 rowid keeps the low 32 bits: the identity below 2^32,
\* which is beyond every rowid (and every integer) of this model.
AsU32(n) == n

Err(c) == [ok |-> FALSE, val |-> <<>>, conn |-> c]

\* A plausible slip: an insert that skips a text already stored, after which
\* last_insert_rowid() is still the id of the previous insert.
add_sentence_dedup(c, sentence) ==
    IF \E k \in 1..Len(c.sentences) : c.sentences[k] = sentence
    THEN Ok(AsU32(LastInsertRowid(c)), c)
    ELSE LET r == SqlAddSentence(c, sentence)
         IN  Ok(AsU32(LastInsertRowid(r.db)), r.db)

\* fn add_sentence(conn, sentence) -> rusqlite::Result<u32>
add_sentence(c, sentence) ==
    LET r == SqlAddSentence(c, sentence)
    IN  IF ~r.ok THEN Err(r.db)
        ELSE Ok(AsU32(LastInsertRowid(r.db)), r.db)

\* A plausible slip: the result of the second execute dropped, not `?`-ed.
add_word_unchecked(c, word, sentence_id) ==
    LET r1 == SqlAddWord(c, word)
    IN  IF ~r1.ok THEN Err(r1.db)
        ELSE Ok(<<>>, SqlAddWordJunction(r1.db, word, sentence_id).db)

\* A plausible slip: an execute that changed no row taken for a failure.
add_word_strict(c, word, sentence_id) ==
    LET r1 == SqlAddWord(c, word)
    IN  IF ~r1.ok \/ r1.changed = 0 THEN Err(r1.db)
        ELSE LET r2 == SqlAddWordJunction(r1.db, word, sentence_id)
             IN  IF ~r2.ok \/ r2.changed = 0 THEN Err(r2.db) ELSE Ok(<<>>, r2.db)

\* fn add_word(conn, word, sentence_id) -> rusqlite::Result<()>
add_word(c, word, sentence_id) ==
    LET r1 == SqlAddWord(c, word)
    IN  IF ~r1.ok THEN Err(r1.db)
        ELSE LET r2 == SqlAddWordJunction(r1.db, word, sentence_id)
             IN  IF ~r2.ok THEN Err(r2.db) ELSE Ok(<<>>, r2.db)

Reverse(s) == [k \in 1..Len(s) |-> s[Len(s) + 1 - k]]

\* A plausible slip: buffer.insert(0, s) in place of buffer.push(s).
matching_word_reversed(c, word) == Ok(Reverse(SqlAllWordSentences(c, word)), c)

\* A plausible slip: a query that registers the word it is asked for.
matching_word_registers(c, word) ==
    IF ~c.tables THEN Err(c)
    ELSE Ok(SqlAllWordSentences(c, word), SqlAddWord(c, word).db)

\* fn matching_word(conn, word) -> rusqlite::Result<Vec<String>>
matching_word(c, word) ==
    IF ~c.tables THEN Err(c) ELSE Ok(SqlAllWordSentences(c, word), c)

\* A plausible slip: the two branches of `if all` swapped.
print_query_swapped(c, word, all) ==
    IF all THEN SqlBestWordSentences(c, word) ELSE SqlAllWordSentences(c, word)

\* The rows print_matching_words iterates over (lines 127-133).
print_query(c, word, all) ==
    IF all THEN SqlAllWordSentences(c, word) ELSE SqlBestWordSentences(c, word)

----------------------------------------------------------------------------
(* The segmenter driven on its own, as tests::sentences_works_correctly does *)

\* fn sentences(reader): Sentences { bytes: reader.bytes(), done: false }
InitSeg ==
    /\ input \in Streams
    /\ bytes = input
    /\ done = FALSE
    /\ items = <<>>
    /\ conn = EmptyConn
    /\ pc = "iter"
    /\ i = 0
    /\ stdout = <<>>
    /\ ret = <<>>
    /\ calls = <<>>
    /\ disk = NoDisk
    /\ opt = NoOpt

\* iter.next() yielding Some(item)
IterNextSome ==
    /\ pc = "iter"
    /\ LET r == SentencesNext(bytes, done)
       IN  /\ r.item.kind # "None"
           /\ bytes' = r.bytes
           /\ done' = r.done
           /\ items' = Append(items, r.item)
           /\ ret' = r.item
    /\ UNCHANGED <<disk, opt, input, conn, pc, i, stdout, calls>>

\* iter.next() returning None
IterNextNone ==
    /\ pc = "iter"
    /\ LET r == SentencesNext(bytes, done)
       IN  /\ r.item.kind = "None"
           /\ bytes' = r.bytes
           /\ done' = r.done
           /\ items' = items
           /\ ret' = r.item
    /\ UNCHANGED <<disk, opt, input, conn, pc, i, stdout, calls>>

NextSeg == IterNextSome \/ IterNextNone

SpecSeg == InitSeg /\ [][NextSeg]_vars

\* Before sentences(reader) is called.
InitSegLive ==
    /\ input = <<>>
    /\ bytes = <<>>
    /\ done = FALSE
    /\ items = <<>>
    /\ conn = EmptyConn
    /\ pc = "new"
    /\ i = 0
    /\ stdout = <<>>
    /\ ret = <<>>
    /\ calls = <<>>
    /\ disk = NoDisk
    /\ opt = NoOpt

\* fn sentences(reader): the iterator over a reader, not done.
SentencesOf(reader) ==
    /\ pc = "new"
    /\ input' = reader
    /\ bytes' = reader
    /\ done' = FALSE
    /\ pc' = "iter"
    /\ UNCHANGED <<disk, opt, items, conn, i, stdout, ret, calls>>

NextSegLive ==
    \/ \E reader \in LiveStreams : SentencesOf(reader)
    \/ IterNextSome
    \/ IterNextNone

\* The caller of the iterator keeps asking: a for loop, or the test's calls.
SpecSegLive == InitSegLive /\ [][NextSegLive]_vars /\ WF_vars(NextSegLive)

----------------------------------------------------------------------------
(* The store driven on its own, as tests::bank_lookup_works_correctly does: *)
(* add_sentence and add_word calls, then queries.                           *)

\* "A B", "A B C", "B A"
Texts == { <<65, 32, 66>>, <<65, 32, 66, 32, 67>>, <<66, 32, 65>> }

\* "A", "C"
Words == { <<65>>, <<67>> }

\* What became of a write to stdout (line 136).
WriteOutcomes == {"written", "BrokenPipe", "OtherError"}

\* What a call returned, with the call: op and its arguments word, id (the
\* sentence_id) and all, and repeat: for add_word whether the pair
\* <<word, id>> was a membership before the call, for a query whether the
\* call before it was the same query.
Ret(op, word, id, all, repeat, ok, val) ==
    [op |-> op, word |-> word, id |-> id, all |-> all, repeat |-> repeat,
     ok |-> ok, val |-> val]

NoCall == Ret("none", <<>>, 0, FALSE, FALSE, TRUE, <<>>)

\* let conn = conn_from_memory()?;
InitStore ==
    /\ input = <<>>
    /\ bytes = <<>>
    /\ done = FALSE
    /\ items = <<>>
    /\ conn = EmptyConn
    /\ pc = "store"
    /\ i = 0
    /\ stdout = <<>>
    /\ ret = NoCall
    /\ calls = <<>>
    /\ disk = NoDisk
    /\ opt = NoOpt

CallAddSentence(text) ==
    /\ pc = "store"
    /\ Len(calls) < MaxSentences
    /\ LET r == add_sentence(conn, text)
       IN  /\ conn' = r.conn
           /\ ret' = Ret("add_sentence", text, 0, FALSE, FALSE, r.ok, r.val)
           /\ calls' = Append(calls, [text |-> text, ok |-> r.ok, id |-> r.val])
    /\ UNCHANGED <<disk, opt, input, bytes, done, items, pc, i, stdout>>

CallAddWord(word, sentence_id) ==
    /\ pc = "store"
    /\ LET r == add_word(conn, word, sentence_id)
       IN  /\ conn' = r.conn
           /\ ret' = Ret("add_word", word, sentence_id, FALSE,
                         <<word, sentence_id>> \in conn.junction, r.ok, r.val)
    /\ UNCHANGED <<disk, opt, input, bytes, done, items, pc, i, stdout, calls>>

CallMatchingWord(word) ==
    /\ pc \in {"store", "queried"}
    /\ LET r == matching_word(conn, word)
       IN  /\ conn' = r.conn
           /\ ret' = Ret("matching_word", word, 0, TRUE,
                         ret.op = "matching_word" /\ ret.word = word,
                         r.ok, r.val)
    /\ pc' = "queried"
    /\ UNCHANGED <<disk, opt, input, bytes, done, items, i, stdout, calls>>

\* print_matching_words(conn, word, all) in a process of its own: stdout is
\* what that process wrote.  A write that fails with BrokenPipe is ignored,
\* any other failure panics; the outcome is taken to be that of every write.
CallPrintMatchingWords(word, all, outcome) ==
    /\ pc \in {"store", "queried"}
    /\ LET rows == print_query(conn, word, all)
       IN  /\ stdout' = IF outcome = "written" THEN rows ELSE <<>>
           /\ ret' = Ret("print_matching_words", word, 0, all,
                         /\ ret.op = "print_matching_words"
                         /\ ret.word = word
                         /\ ret.all = all,
                         TRUE, rows)
           /\ pc' = IF outcome = "OtherError" /\ rows # <<>> THEN "panic" ELSE "queried"
    /\ UNCHANGED <<disk, opt, input, bytes, done, items, conn, i, calls>>

NextStore ==
    \/ \E text \in Texts : CallAddSentence(text)
    \/ \E word \in Words, sentence_id \in 0..(Len(conn.sentences) + 1) :
          CallAddWord(word, sentence_id)
    \/ \E word \in Words : CallMatchingWord(word)
    \/ \E word \in Words, all \in BOOLEAN, outcome \in WriteOutcomes :
          CallPrintMatchingWords(word, all, outcome)

SpecStore == InitStore /\ [][NextStore]_vars

----------------------------------------------------------------------------
(* Queries on a store that many sentences were added to *)

\* The k-th sentence added: k mod 3 + 1 times 'A'.
BulkText(k) == [j \in 1..((k % 3) + 1) |-> 65]

InitCap == InitStore

\* One more sentence added, with the word "A" and, for every second
\* sentence, with the word "C" as well.
BulkAdd ==
    /\ pc = "store"
    /\ Len(conn.sentences) < MaxBulk
    /\ LET n == Len(conn.sentences) + 1
           s == add_sentence(conn, BulkText(n))
           a == add_word(s.conn, <<65>>, s.val)
           c == IF n % 2 = 0 THEN add_word(a.conn, <<67>>, s.val) ELSE a
       IN  /\ conn' = c.conn
           /\ ret' = Ret("add_word", <<65>>, s.val, FALSE, FALSE, c.ok, c.val)
    /\ UNCHANGED <<disk, opt, input, bytes, done, items, pc, i, stdout, calls>>

NextCap ==
    \/ BulkAdd
    \/ \E word \in Words : CallMatchingWord(word)
    \/ \E word \in Words, all \in BOOLEAN, outcome \in WriteOutcomes :
          CallPrintMatchingWords(word, all, outcome)

SpecCap == InitCap /\ [][NextCap]_vars

----------------------------------------------------------------------------
(* The tokenizer (mecab) and consume_trimmed *)

Tab == <<9>>
Newline == <<10>>
Comma == <<44>>

\* "EOS"
EOS == <<69, 79, 83>>

\* Index of the first c in s, 0 if there is none (str::find).
RECURSIVE Find(_, _, _)
Find(s, c, from) ==
    IF from > Len(s) THEN 0
    ELSE IF s[from] = c THEN from
    ELSE Find(s, c, from + 1)

\* str::split(c): the pieces of s between the occurrences of c.
RECURSIVE Split(_, _)
Split(s, c) ==
    LET k == Find(s, c, 1)
    IN  IF k = 0 THEN <<s>>
        ELSE <<SubSeq(s, 1, k - 1)>> \o Split(SubSeq(s, k + 1, Len(s)), c)

\* str::lines(): the pieces between line feeds, without a last empty one.
Lines(s) ==
    LET ps == Split(s, Newline[1])
    IN  IF ps[Len(ps)] = <<>> THEN SubSeq(ps, 1, Len(ps) - 1) ELSE ps

\* Roots the modelled analyses speak of: 見る, 犬, 猫.
Miru == <<35211, 12427>>
Inu == <<29356>>
Neko == <<29483>>
Roots == {Miru, Inu, Neko}

\* One analysis line: surface, a tab, the features with the root as the 7th.
Star == <<42>>
TokLine(surface, root) ==
    surface \o Tab \o Star \o Comma \o Star \o Comma \o Star \o Comma \o Star
            \o Comma \o Star \o Comma \o Star \o Comma \o root \o Comma \o Star
            \o Newline

\* What tagger.next() may return for a sentence, with the roots the analysis
\* holds before its end marker: well-formed analyses (one with a root twice,
\* one with a line after the end marker, one with no token), an analysis with
\* a line without a tab, one with a line of three features, and None.
MecabOutputs ==
    { [some |-> TRUE, roots |-> <<Inu, Miru>>,
       out |-> TokLine(Inu, Inu) \o TokLine(<<35211>>, Miru) \o EOS \o Newline],
      [some |-> TRUE, roots |-> <<Miru, Neko, Miru>>,
       out |-> TokLine(<<35211>>, Miru) \o TokLine(Neko, Neko)
               \o TokLine(Miru, Miru) \o EOS \o Newline],
      [some |-> TRUE, roots |-> <<Neko>>,
       out |-> TokLine(Neko, Neko) \o EOS \o Newline \o TokLine(Inu, Inu)],
      [some |-> TRUE, roots |-> <<>>,
       out |-> EOS \o Newline],
      [some |-> TRUE, roots |-> <<Inu>>,
       out |-> TokLine(Inu, Inu) \o <<35211>> \o Newline \o EOS \o Newline],
      [some |-> TRUE, roots |-> <<Inu>>,
       out |-> TokLine(Inu, Inu) \o <<35211>> \o Tab \o Star \o Comma \o Star
               \o Comma \o Miru \o Newline \o EOS \o Newline],
      [some |-> FALSE, roots |-> <<>>, out |-> <<>>] }

Trimmed(status, c, id) == [status |-> status, conn |-> c, id |-> id]

\* A plausible slip: skip(5) in place of skip(6).
root_of_line_skip5(l) ==
    LET tab_index == Find(l, Tab[1], 1)
    IN  IF tab_index = 0 THEN [some |-> FALSE, root |-> <<>>]
        ELSE LET rest == SubSeq(l, tab_index + 1, Len(l))
                 fields == Split(rest, Comma[1])
             IN  IF Len(fields) < 6 THEN [some |-> FALSE, root |-> <<>>]
                 ELSE [some |-> TRUE, root |-> fields[6]]

\* Lines 154-158: the root of one line, or none where an unwrap() panics.
root_of_line(l) ==
    LET tab_index == Find(l, Tab[1], 1)
    IN  IF tab_index = 0 THEN [some |-> FALSE, root |-> <<>>]
        ELSE LET rest == SubSeq(l, tab_index + 1, Len(l))
                 fields == Split(rest, Comma[1])
             IN  IF Len(fields) < 7 THEN [some |-> FALSE, root |-> <<>>]
                 ELSE [some |-> TRUE, root |-> fields[7]]

\* What the loop of lines 150-160 makes of each line of an analysis: the
\* end marker, or the root of the line.
ParsedLine(l) == IF l = EOS THEN [eos |-> TRUE, some |-> TRUE, root |-> <<>>]
                 ELSE [eos |-> FALSE] @@ root_of_line(l)

ParsedOutputs ==
    [m \in MecabOutputs |->
        LET ls == Lines(m.out) IN [k \in 1..Len(ls) |-> ParsedLine(ls[k])]]

\* The loop of lines 150-160 over the lines left.
RECURSIVE consume_lines(_, _, _)
consume_lines(c, ls, sentence_id) ==
    IF ls = <<>> THEN Trimmed("Ok", c, sentence_id)
    ELSE IF Head(ls).eos THEN Trimmed("Ok", c, sentence_id)
    ELSE IF ~Head(ls).some THEN Trimmed("Panic", c, sentence_id)
    ELSE LET w == add_word(c, Head(ls).root, sentence_id)
         IN  IF ~w.ok THEN Trimmed("Err", w.conn, sentence_id)
             ELSE consume_lines(w.conn, Tail(ls), sentence_id)

\* A plausible slip: the id taken before the sentence is inserted.
consume_trimmed_stale_id(c, trimmed, mecab) ==
    LET s == add_sentence(c, trimmed)
    IN  IF ~s.ok THEN Trimmed("Err", s.conn, 0)
        ELSE IF ~mecab.some THEN Trimmed("Panic", s.conn, s.val - 1)
        ELSE consume_lines(s.conn, ParsedOutputs[mecab], s.val - 1)

\* fn consume_trimmed(conn, trimmed) -> rusqlite::Result<()>, with what the
\* tagger returns for trimmed.
consume_trimmed(c, trimmed, mecab) ==
    LET s == add_sentence(c, trimmed)
    IN  IF ~s.ok THEN Trimmed("Err", s.conn, 0)
        ELSE IF ~mecab.some THEN Trimmed("Panic", s.conn, s.val)
        ELSE consume_lines(s.conn, ParsedOutputs[mecab], s.val)

----------------------------------------------------------------------------
(* consume_sentences on a fresh store *)

Init ==
    /\ input \in FileStreams
    /\ bytes = input
    /\ done = FALSE
    /\ items = <<>>
    /\ conn = EmptyConn
    /\ pc = "consume"
    /\ i = 0
    /\ stdout = <<>>
    /\ ret = <<>>
    /\ calls = <<>>
    /\ disk = NoDisk
    /\ opt = NoOpt

\* A plausible slip: `sentence?` in place of the is_err() test.
ConsumeErrAbort ==
    /\ pc = "consume"
    /\ LET r == SentencesNext(bytes, done)
       IN  /\ r.item.kind \in {"Utf8", "IO"}
           /\ bytes' = r.bytes
           /\ done' = r.done
           /\ items' = Append(items, r.item)
           /\ ret' = r.item
    /\ i' = i + 1
    /\ pc' = "err"
    /\ UNCHANGED <<disk, opt, input, conn, stdout, calls>>

\* An iteration of the loop of consume_sentences on an Err item.
ConsumeErr ==
    /\ pc = "consume"
    /\ LET r == SentencesNext(bytes, done)
       IN  /\ r.item.kind \in {"Utf8", "IO"}
           /\ bytes' = r.bytes
           /\ done' = r.done
           /\ items' = Append(items, r.item)
           /\ ret' = r.item
    /\ i' = i + 1
    /\ UNCHANGED <<disk, opt, input, conn, pc, stdout, calls>>

\* An iteration of the loop on an Ok item: consume_trimmed, with `?`.
ConsumeOk(mecab) ==
    /\ pc = "consume"
    /\ LET r == SentencesNext(bytes, done)
           t == consume_trimmed(conn, r.item.text, mecab)
       IN  /\ r.item.kind = "Ok"
           /\ bytes' = r.bytes
           /\ done' = r.done
           /\ items' = Append(items, r.item)
           /\ ret' = r.item
           /\ conn' = t.conn
           /\ pc' = IF t.status = "Ok" THEN "consume"
                    ELSE IF t.status = "Err" THEN "err" ELSE "panic"
           /\ calls' = Append(calls, [text |-> r.item.text, id |-> t.id,
                                      roots |-> mecab.roots, status |-> t.status,
                                      mecab |-> mecab])
    /\ i' = i + 1
    /\ UNCHANGED <<disk, opt, input, stdout>>

\* The iterator is exhausted: Ok(()).
ConsumeEnd ==
    /\ pc = "consume"
    /\ LET r == SentencesNext(bytes, done)
       IN  /\ r.item.kind = "None"
           /\ bytes' = r.bytes
           /\ done' = r.done
           /\ ret' = r.item
    /\ pc' = "ok"
    /\ UNCHANGED <<disk, opt, input, items, conn, i, stdout, calls>>

Next ==
    \/ ConsumeErr
    \/ \E mecab \in MecabOutputs : ConsumeOk(mecab)
    \/ ConsumeEnd

Spec == Init /\ [][Next]_vars

----------------------------------------------------------------------------
(* main: the add and get commands on the database file at db_path *)

\* fn create_tables(conn): sql/setup.sql creates the three tables.
create_tables(db) ==
    IF db.tables THEN SqlError(db) ELSE Executed(0, [db EXCEPT !.tables = TRUE])

\* fn conn_from_disk(path): the connection's database and the file
\* afterwards.  Connection::open creates a missing file; the tables are
\* created, outside any transaction, only if the file did not exist.
conn_from_disk(d) ==
    LET existed == d.exists
        opened == [exists |-> TRUE, db |-> d.db]
    IN  IF existed THEN [ok |-> TRUE, conn |-> opened.db, disk |-> opened]
        ELSE LET r == create_tables(opened.db)
             IN  [ok |-> r.ok, conn |-> r.db, disk |-> [opened EXCEPT !.db = r.db]]

\* A database with one sentence, "A。", and its root.
OneSentence ==
    LET s == add_sentence(EmptyConn, <<65, 12290>>)
    IN  add_word(s.conn, Miru, s.val).conn

\* What may be at db_path before a run: nothing, a zero-length file, a
\* database with the tables and no row, a database with a sentence.
DiskStates ==
    { NoDisk,
      [exists |-> TRUE, db |-> NoTables],
      [exists |-> TRUE, db |-> EmptyConn],
      [exists |-> TRUE, db |-> OneSentence] }

\* Ginkou::from_args(): add reading stdin ("none"), a file that opens or a
\* file that does not ("missing"); get with a word and the allwords flag.
Opts(d) ==
    { [cmd |-> "add", file |-> f, word |-> <<>>, all |-> FALSE, before |-> d] :
        f \in {"none", "opens", "missing"} }
    \cup
    { [cmd |-> "get", file |-> "none", word |-> w, all |-> a, before |-> d] :
        w \in {Miru, Inu}, a \in BOOLEAN }

InitMain ==
    /\ disk \in DiskStates
    /\ opt \in Opts(disk)
    /\ input \in (IF opt.cmd = "add" /\ opt.file # "missing"
                  THEN BatchStreams ELSE {<<>>})
    /\ bytes = <<>>
    /\ done = FALSE
    /\ items = <<>>
    /\ conn = NoTables
    /\ pc = "main"
    /\ i = 0
    /\ stdout = <<>>
    /\ ret = <<>>
    /\ calls = <<>>

\* Lines 226-232 and 239-240: the database is opened, a transaction begun
\* and the reader made; consume_sentences runs on the transaction.
MainAddStart ==
    /\ pc = "main"
    /\ opt.cmd = "add"
    /\ opt.file \in {"none", "opens"}
    /\ LET o == conn_from_disk(disk)
       IN  /\ disk' = o.disk
           /\ conn' = o.conn
           /\ pc' = IF o.ok THEN "consume" ELSE "exit_err"
    /\ bytes' = input
    /\ UNCHANGED <<opt, input, done, items, i, stdout, ret, calls>>

\* A plausible slip: the failure of File::open returned as the error of main.
MainAddMissingFileFails ==
    /\ pc = "main"
    /\ opt.cmd = "add"
    /\ opt.file = "missing"
    /\ LET o == conn_from_disk(disk)
       IN  /\ disk' = o.disk
           /\ conn' = o.conn
    /\ pc' = "exit_err"
    /\ UNCHANGED <<opt, input, bytes, done, items, i, stdout, ret, calls>>

\* Lines 226-228 and 233-238: the database is opened and a transaction
\* begun, then File::open fails: a message, and return Ok(()).  The dropped
\* transaction, which did nothing, is rolled back.
MainAddMissingFile ==
    /\ pc = "main"
    /\ opt.cmd = "add"
    /\ opt.file = "missing"
    /\ LET o == conn_from_disk(disk)
       IN  /\ disk' = o.disk
           /\ conn' = o.conn
           /\ pc' = IF o.ok THEN "exit_ok" ELSE "exit_err"
    /\ UNCHANGED <<opt, input, bytes, done, items, i, stdout, ret, calls>>

\* Lines 220-224: get opens the database and prints the matching sentences;
\* a statement that cannot be prepared is the error of main.
MainGet(outcome) ==
    /\ pc = "main"
    /\ opt.cmd = "get"
    /\ LET o == conn_from_disk(disk)
           rows == print_query(o.conn, opt.word, opt.all)
       IN  /\ disk' = o.disk
           /\ conn' = o.conn
           /\ IF ~o.ok \/ ~o.conn.tables
              THEN /\ pc' = "exit_err"
                   /\ stdout' = <<>>
                   /\ ret' = Ret("print_matching_words", opt.word, 0, opt.all,
                                 FALSE, FALSE, <<>>)
              ELSE /\ pc' = IF outcome = "OtherError" /\ rows # <<>>
                            THEN "panic" ELSE "exit_ok"
                   /\ stdout' = IF outcome = "written" THEN rows ELSE <<>>
                   /\ ret' = Ret("print_matching_words", opt.word, 0, opt.all,
                                 FALSE, TRUE, rows)
    /\ UNCHANGED <<opt, input, bytes, done, items, i, calls>>

\* Line 243: consume_sentences returned Ok(()), tx.commit().
MainCommit ==
    /\ pc = "ok"
    /\ opt.cmd = "add"
    /\ disk' = [disk EXCEPT !.db = conn]
    /\ pc' = "exit_ok"
    /\ UNCHANGED <<opt, input, bytes, done, items, conn, i, stdout, ret, calls>>

\* A plausible slip: a transaction that commits when it is dropped.
MainAbortCommits ==
    /\ pc \in {"err", "panic"}
    /\ opt.cmd = "add"
    /\ disk' = [disk EXCEPT !.db = conn]
    /\ pc' = "exit_err"
    /\ UNCHANGED <<opt, input, bytes, done, items, conn, i, stdout, ret, calls>>

\* Lines 231 and 240: consume_sentences returned Err, or panicked: main is
\* left with tx uncommitted, and dropping tx rolls it back.
MainAbort ==
    /\ pc \in {"err", "panic"}
    /\ opt.cmd = "add"
    /\ conn' = disk.db
    /\ pc' = "exit_err"
    /\ UNCHANGED <<disk, opt, input, bytes, done, items, i, stdout, ret, calls>>

NextMain ==
    \/ MainAddStart
    \/ MainAddMissingFile
    \/ \E outcome \in WriteOutcomes : MainGet(outcome)
    \/ ConsumeErr
    \/ \E mecab \in MecabOutputs : ConsumeOk(mecab)
    \/ ConsumeEnd
    \/ MainCommit
    \/ MainAbort

SpecMain == InitMain /\ [][NextMain]_vars

----------------------------------------------------------------------------
(* Properties of the segmenter *)

EndsWithDelimiter(buf) ==
    Len(buf) >= 3 /\ SubSeq(buf, Len(buf) - 2, Len(buf)) = DAKUTEN_BYTES

\* The buffers the segmenter finalized: those of its Ok and Utf8 items.
IsUnit(item) == item.kind \in {"Ok", "Utf8"}

\* C1: every buffer the Segmenter yields is terminated by the full 3-byte
\* delimiter; a trailing buffer the stream ends in is discarded.
C1_YieldedBuffersEndWithDelimiter ==
    \A k \in 1..Len(items) : IsUnit(items[k]) => EndsWithDelimiter(items[k].buf)

\* The delimiter as a character, U+3002.
FullStop == from_utf8(DAKUTEN_BYTES).chars[1]

\* A stream of bytes that is valid UTF-8 and is made of segments each
\* terminated by the delimiter, with nothing after the last delimiter.
WellFormed(s) ==
    /\ \A k \in 1..Len(s) : IsByte(s[k])
    /\ from_utf8(s).ok
    /\ s = <<>> \/ EndsWithDelimiter(s)

\* The segments of a decoded text: each runs up to and including a FullStop.
RECURSIVE SegmentsOf(_)
SegmentsOf(chars) ==
    IF chars = <<>> THEN <<>>
    ELSE LET k == Find(chars, FullStop, 1)
         IN  IF k = 0 THEN <<chars>>
             ELSE <<SubSeq(chars, 1, k)>> \o SegmentsOf(SubSeq(chars, k + 1, Len(chars)))

\* C2: for a well-formed stream of k delimiter-terminated segments the
\* Segmenter yields exactly k items, all successful, the i-th being the i-th
\* segment without its whitespace characters and with all its other
\* characters, the delimiter included, in order.
C2_SegmentsStrippedInOrder ==
    (done /\ WellFormed(input)) =>
        LET segs == SegmentsOf(from_utf8(input).chars)
        IN  /\ Len(items) = Len(segs)
            /\ \A k \in 1..Len(items) :
                  /\ items[k].kind = "Ok"
                  /\ items[k].text = SelectSeq(segs[k], IsNotWhitespace)
                  /\ \A j \in 1..Len(items[k].text) : ~is_whitespace(items[k].text[j])

\* Two segments were yielded, the first with its interior space removed.
C2_Witness ==
    /\ done
    /\ WellFormed(input)
    /\ Len(items) = 2
    /\ items[1].buf = <<65, 32, 65>> \o DAKUTEN_BYTES
    /\ items[1].text = <<65, 65, FullStop>>
    /\ items[2].text = <<FullStop>>

\* The positions before the last three bytes of buf at which the delimiter
\* occurs.
InteriorDelimiters(buf) ==
    { p \in 1..(Len(buf) - 3) : SubSeq(buf, p, p + 2) = DAKUTEN_BYTES }

\* C17 as stated: for every stream, no buffer the segmenter yields holds the
\* delimiter before its last three bytes.
C17_NoDelimiterInsideAUnit ==
    \A k \in 1..Len(items) :
        IsUnit(items[k]) => InteriorDelimiters(items[k].buf) = {}

\* C17 amended: a buffer the segmenter yields holds the delimiter before its
\* last three bytes only where the delimiter follows a started match, the
\* byte E3 or the bytes E3 80, which the reset to zero makes it miss; the
\* buffer of a unit that decoded as UTF-8 holds it nowhere but at its end.
C17_DelimiterInsideOnlyAfterStartedMatch ==
    \A k \in 1..Len(items) :
        LET buf == items[k].buf
        IN  IsUnit(items[k]) =>
                /\ \A p \in InteriorDelimiters(buf) :
                       \/ p > 1 /\ buf[p - 1] = 227
                       \/ p > 2 /\ buf[p - 2] = 227 /\ buf[p - 1] = 128
                /\ items[k].kind = "Ok" => InteriorDelimiters(buf) = {}

\* A unit was yielded whose buffer holds a delimiter inside and ends in one,
\* and a unit that decoded was yielded after it.
C17_Witness ==
    /\ Len(items) = 2
    /\ InteriorDelimiters(items[1].buf) # {}
    /\ EndsWithDelimiter(items[1].buf)
    /\ items[1].kind = "Utf8"
    /\ items[2].kind = "Ok"
    /\ EndsWithDelimiter(items[2].buf)

\* C14: on every finite stream the sequence terminates.  The items yielded
\* are at most as many as the reads of the stream; the requests come to one
\* that reports the end, with the stream exhausted, and from then on every
\* request reports the end, yields no item and reads nothing.
C14_SequenceTerminates ==
    /\ [](Len(items) <= Len(input))
    /\ <>[](pc = "iter" /\ done /\ bytes = <<>>)
    /\ [][done => /\ ret'.kind = "None"
                  /\ done'
                  /\ items' = items
                  /\ bytes' = bytes]_vars
    /\ [][(pc = "iter" /\ ret'.kind = "None") => (done' /\ bytes' = <<>>)]_vars

\* The end was reported after two items, one of them a failed read.
C14_Witness ==
    /\ done
    /\ bytes = <<>>
    /\ ret = Item("None", <<>>, <<>>)
    /\ Len(items) = 2
    /\ \E k \in 1..2 : items[k].kind = "IO"

----------------------------------------------------------------------------
(* Properties of consume_sentences *)

\* C3: every sentence text the pipeline passes to add_sentence is non-empty.
C3_StoredTextNonEmpty ==
    \A k \in 1..Len(calls) : calls[k].text # <<>>

OkItems == SelectSeq(items, LAMBDA it : it.kind = "Ok")

Bufs == [k \in 1..Len(items) |-> items[k].buf]

----------------------------------------------------------------------------
(* Properties of the store *)

Count(rows, t) == Cardinality({ k \in 1..Len(rows) : rows[k] = t })

SortedByLength(rows) ==
    \A j, k \in 1..Len(rows) : j < k => Len(rows[j]) <= Len(rows[k])

\* The ids of the sentences that have a membership with word.
Members(db, word) == { id \in 1..Len(db.sentences) : <<word, id>> \in db.junction }

\* rows holds one entry per sentence that has a membership with word, its
\* text, and nothing else.
OnePerMember(rows, db, word) ==
    /\ Len(rows) = Cardinality(Members(db, word))
    /\ \A k \in 1..Len(db.sentences) :
          Count(rows, db.sentences[k])
              = Cardinality({ id \in Members(db, word) : db.sentences[id] = db.sentences[k] })

\* C5: after any sequence of add_sentence and add_word calls,
\* matching_word(w) succeeds and returns exactly the texts of the sentences
\* that have a membership with w, one entry per sentence (none for a word
\* never added), in ascending order of length.
C5_MatchingReturnsMembersByLength ==
    ret.op = "matching_word" =>
        /\ ret.ok
        /\ OnePerMember(ret.val, conn, ret.word)
        /\ SortedByLength(ret.val)

\* The longer sentence was added first and is returned last.
C5_Witness ==
    /\ ret.op = "matching_word"
    /\ conn.sentences = << <<65, 32, 66, 32, 67>>, <<65, 32, 66>> >>
    /\ ret.val = << <<65, 32, 66>>, <<65, 32, 66, 32, 67>> >>

\* C6: add_word(w, s) for a pair <<w, s>> that is a membership already
\* succeeds and leaves the memberships, and with them the result of
\* matching_word(w), as they were.
C6_AddWordIdempotent ==
    [][(ret'.op = "add_word" /\ <<ret'.word, ret'.id>> \in conn.junction) =>
          /\ ret'.ok
          /\ conn'.junction = conn.junction
          /\ matching_word(conn', ret'.word).val = matching_word(conn, ret'.word).val
          /\ Count(MatchingIds(conn', ret'.word), ret'.id) = 1]_vars

\* add_word was called for a pair that was a membership already.
C6_Witness ==
    /\ ret.op = "add_word"
    /\ ret.repeat
    /\ <<ret.word, ret.id>> \in conn.junction

\* C7: in capped mode print_matching_words prints at most BEST_LIMIT
\* sentences, the first of the unrestricted result, shortest first; in
\* unrestricted mode it prints one line for every sentence that has a
\* membership with the word, however many there are.
C7_CappedAtBestLimit ==
    ret.op = "print_matching_words" =>
        LET full == matching_word(conn, ret.word).val
            n == Cardinality(Members(conn, ret.word))
        IN  /\ SortedByLength(ret.val)
            /\ Len(stdout) <= Len(ret.val)
            /\ ~ret.all =>
                  /\ Len(ret.val) <= BEST_LIMIT
                  /\ Len(ret.val) = (IF n <= BEST_LIMIT THEN n ELSE BEST_LIMIT)
                  /\ ret.val = SubSeq(full, 1, Len(ret.val))
            /\ ret.all => (Len(ret.val) = n /\ ret.val = full)

\* A capped query was printed on a store with more than BEST_LIMIT matches.
C7_Witness ==
    /\ ret.op = "print_matching_words"
    /\ ~ret.all
    /\ Cardinality(Members(conn, ret.word)) > BEST_LIMIT
    /\ Len(stdout) = BEST_LIMIT

Range(f) == { f[k] : k \in DOMAIN f }

\* C8: after the pipeline ingested sentences, matching_word(w) returns, for
\* every word w, the texts passed to consume_trimmed whose analysis holds w
\* as a root, each once for each such sentence (also when the analysis holds
\* w several times), and no other.
C8_IngestionRoundTrip ==
    pc \in {"consume", "ok"} =>
        \A w \in Roots :
            LET rows == matching_word(conn, w).val
                with == { k \in 1..Len(calls) : w \in Range(calls[k].roots) }
            IN  /\ Len(rows) = Cardinality(with)
                /\ \A k \in 1..Len(calls) :
                      Count(rows, calls[k].text)
                          = Cardinality({ j \in with : calls[j].text = calls[k].text })

\* Two sentences were ingested, one of them with a root twice; a root they
\* share matches both, roots of only one of them match one.
C8_Witness ==
    /\ pc = "ok"
    /\ Len(calls) = 2
    /\ calls[1].text # calls[2].text
    /\ calls[1].roots = <<Miru, Neko, Miru>>
    /\ calls[2].roots = <<Inu, Miru>>
    /\ Len(matching_word(conn, Miru).val) = 2
    /\ matching_word(conn, Inu).val = <<calls[2].text>>

\* C9: every add_sentence call, also one with a text stored already,
\* creates a Sentence row and returns an id greater than every id returned
\* before; the id is that of the row created.
C9_AddSentenceFreshIds ==
    /\ Len(conn.sentences) = Len(calls)
    /\ \A k \in 1..Len(calls) :
          /\ calls[k].ok
          /\ calls[k].id \in 1..Len(conn.sentences)
          /\ conn.sentences[calls[k].id] = calls[k].text
          /\ \A j \in 1..(k - 1) : calls[j].id < calls[k].id

\* The same text was added twice.
C9_Witness ==
    /\ Len(calls) >= 2
    /\ calls[1].text = calls[2].text
    /\ calls[1].id # calls[2].id

\* C10: add_word(w, id) with an id that is not the id of a Sentence row
\* fails and adds no membership.
C10_AddWordUnknownSentenceFails ==
    [][(ret'.op = "add_word" /\ ret'.id \notin 1..Len(conn.sentences)) =>
          (~ret'.ok /\ conn'.junction = conn.junction)]_vars

\* add_word was called with an id beyond the last Sentence row.
C10_Witness ==
    /\ ret.op = "add_word"
    /\ ret.id > Len(conn.sentences)
    /\ conn.sentences # <<>>
    /\ ~ret.ok

\* C13: only decode errors are skipped.  A unit for which the segmenter
\* reported an I/O error is the last one consumed, and consume_sentences has
\* returned the error.
C13_OnlyDecodeErrorsAreSkipped ==
    \A k \in 1..Len(items) :
        items[k].kind = "IO" => (k = Len(items) /\ pc = "err")

----------------------------------------------------------------------------
(* Properties of consume_trimmed *)

\* The lines of an analysis before its end marker.
RECURSIVE UntilEOS(_)
UntilEOS(ls) ==
    IF ls = <<>> \/ Head(ls) = EOS THEN <<>>
    ELSE <<Head(ls)>> \o UntilEOS(Tail(ls))

\* A line with no tab, or with fewer than 7 comma-separated fields after its
\* first tab, told by counting the commas.
IrregularLine(l) ==
    LET tabs == { k \in 1..Len(l) : l[k] = 9 }
        commas == { k \in 1..Len(l) : l[k] = 44 /\ \E t \in tabs : t < k }
    IN  tabs = {} \/ Cardinality(commas) < 6

\* Of each analysis: whether there is one, the number of lines before its
\* end marker, and whether one of them is irregular.
Analysis ==
    [m \in MecabOutputs |->
        LET ls == IF m.some THEN UntilEOS(Lines(m.out)) ELSE <<>>
        IN  [some |-> m.some,
             tokens |-> Len(ls),
             irregular |-> \E k \in 1..Len(ls) : IrregularLine(ls[k])]]

\* The memberships of the sentence with this id.
MembershipsOf(db, id) == { m \in db.junction : m[2] = id }

\* C12 as stated: a unit whose analysis is missing, has an irregular line
\* before the end marker, or holds no token at all, is the last one consumed,
\* and ingestion has stopped with a fatal error.
C12_TokenizerFailuresAreFatal ==
    \A k \in 1..Len(calls) :
        LET a == Analysis[calls[k].mecab]
        IN  (~a.some \/ a.irregular \/ a.tokens = 0) =>
                /\ calls[k].status # "Ok"
                /\ k = Len(calls)
                /\ pc \in {"panic", "err"}

\* What holds of C12: a unit whose analysis is missing or has an irregular
\* line before the end marker is the last one consumed, and ingestion has
\* stopped with a panic; a unit whose analysis holds no token before the end
\* marker is stored, with no membership, and does not stop ingestion.
C12_IrregularAnalysisIsFatal ==
    \A k \in 1..Len(calls) :
        LET a == Analysis[calls[k].mecab]
        IN  /\ (~a.some \/ a.irregular) =>
                   /\ calls[k].status = "Panic"
                   /\ k = Len(calls)
                   /\ pc = "panic"
            /\ (a.some /\ a.tokens = 0) =>
                   /\ calls[k].status = "Ok"
                   /\ calls[k].id \in 1..Len(conn.sentences)
                   /\ conn.sentences[calls[k].id] = calls[k].text
                   /\ MembershipsOf(conn, calls[k].id) = {}
                   /\ (k = Len(calls) => pc \in {"consume", "ok"})

\* C18: the store holds exactly one Sentence row per unit that was segmented
\* and tokenized, in order, and none for a unit whose tokenization failed.
C18_OneSentenceRowPerTokenizedUnit ==
    LET tokenized == SelectSeq(calls, LAMBDA c : c.status = "Ok")
    IN  conn.sentences = [k \in 1..Len(tokenized) |-> tokenized[k].text]

\* C19: every membership refers to a Sentence row that exists and to a Word
\* that exists, its sentence being the one add_sentence created for the unit
\* whose analysis holds the word; no store call of the pipeline fails.
C19_MembershipsReferToExistingRows ==
    /\ \A m \in conn.junction :
          /\ m[1] \in conn.words
          /\ m[2] \in 1..Len(conn.sentences)
          /\ \E k \in 1..Len(calls) :
                /\ calls[k].id = m[2]
                /\ conn.sentences[m[2]] = calls[k].text
                /\ m[1] \in Range(calls[k].roots)
    /\ pc # "err"
    /\ \A k \in 1..Len(calls) : calls[k].status # "Err"

\* Two units were ingested, and each has memberships.
C19_Witness ==
    /\ pc = "ok"
    /\ Len(calls) = 2
    /\ MembershipsOf(conn, 1) # {}
    /\ MembershipsOf(conn, 2) # {}
    /\ MembershipsOf(conn, 1) \cup MembershipsOf(conn, 2) = conn.junction

----------------------------------------------------------------------------
(* Properties of main *)

\* The rows of a database: sentences, words and memberships.
Rows(db) == <<db.sentences, db.words, db.junction>>

\* C11: a run of add is one atomic batch.  While the batch is consumed, and
\* after a run that ended with an error or a panic, the database file holds
\* exactly the sentences, words and memberships it held before the run; after
\* a run that consumed its whole input it holds everything the run stored,
\* one sentence more for every unit that was tokenized.
C11_AddIsOneAtomicBatch ==
    (opt.cmd = "add" /\ opt.file # "missing") =>
        /\ pc \in {"consume", "ok", "err", "panic", "exit_err"} =>
               Rows(disk.db) = Rows(opt.before.db)
        /\ pc = "exit_ok" =>
               /\ disk.db = conn
               /\ Len(disk.db.sentences) =
                      Len(opt.before.db.sentences) + Len(calls)
               /\ \A k \in 1..Len(calls) : calls[k].status = "Ok"

\* A run on a database with a sentence stored one unit, failed on the second
\* and ended: the database holds what it held before.
C11_Witness ==
    /\ opt.cmd = "add"
    /\ pc = "exit_err"
    /\ Len(calls) = 2
    /\ calls[1].status = "Ok"
    /\ calls[2].status = "Panic"
    /\ opt.before.db.sentences # <<>>
    /\ disk.db = opt.before.db

\* C15: once the database is opened its schema exists, whether the file was
\* absent or present without a schema, and a database that had the schema is
\* opened with its contents.
C15_OpenInitializesSchema ==
    pc # "main" =>
        /\ disk.exists
        /\ disk.db.tables
        /\ conn.tables
        /\ (opt.before.db.tables /\ i = 0) => conn = opt.before.db

\* C16 as stated: add with an input file that cannot be opened ends
\* successfully and leaves what is at db_path exactly as it was.
C16_MissingFileLeavesStoreAsItWas ==
    (opt.cmd = "add" /\ opt.file = "missing" /\ pc # "main") =>
        /\ pc = "exit_ok"
        /\ disk = opt.before

\* C16 amended: add with an input file that cannot be opened ends
\* successfully having read no unit and inserted no sentence, word or
\* membership; a database file that existed is left exactly as it was, and
\* one that did not exist has been created with the empty schema.
C16_MissingFileInsertsNothing ==
    (opt.cmd = "add" /\ opt.file = "missing" /\ pc # "main") =>
        /\ pc = "exit_ok"
        /\ items = <<>>
        /\ calls = <<>>
        /\ Rows(disk.db) = Rows(opt.before.db)
        /\ opt.before.exists => disk = opt.before
        /\ ~opt.before.exists => disk = [exists |-> TRUE, db |-> EmptyConn]

\* The input file could not be opened and there was no database file: the
\* run ended successfully and the file is there.
C16_Witness ==
    /\ opt.cmd = "add"
    /\ opt.file = "missing"
    /\ pc = "exit_ok"
    /\ ~opt.before.exists
    /\ disk.exists

====
